---- MODULE Spec2Model ----
(***************************************************************************)
(* The WebSocket chat example of restbed                                   *)
(* (example/web_socket/source/example.cpp): the handshake responder, the   *)
(* connection registry `sockets`, the keepalive task ping_handler, the     *)
(* opcode dispatcher message_handler and the entry point                   *)
(* get_method_handler.  Every handler runs to completion on the service's  *)
(* event loop, so each handler is one action.                              *)
(***************************************************************************)
EXTENDS Integers, Sequences, FiniteSets, TLC

(* ------------------------------ bounds -------------------------------- *)
\* Join attempts (connections) the model follows.
NSess == 2
\* Frames handed to message_handler over a run.
MaxFrames == 2
\* Runs of ping_handler over a run.
MaxRuns == 2
\* Join attempts followed where only joins, disconnects and data frames happen.
NWide == 3

(* ---------------------------- constants ------------------------------- *)
\* No session (a null shared_ptr< WebSocket >), no key.
None == 0
NoKey == None
\* The past-the-end iterator of `sockets`.
End == None

\* HTTP status handed to Session::upgrade.
SWITCHING_PROTOCOLS == 101
\* Delay of the first keepalive run, service->schedule( ping_handler, seconds( 5000 ) ).
InitialDelayMs == 5000 * 1000
\* Delay of every later run, service->schedule( ping_handler, milliseconds( 5000 ) ).
PingDelayMs == 5000

MagicGUID == "258EAFA5-E914-47DA-95CA-C5AB0DC85B11"
\* The nonce of RFC 6455's sample handshake.
SampleKey == "dGhlIHNhbXBsZSBub25jZQ=="
\* A request without a Sec-WebSocket-Key header.
Absent == "<absent>"
RequestKeys == {Absent, SampleKey}

Opcodes == {"PING_FRAME", "PONG_FRAME", "CONNECTION_CLOSE_FRAME", "TEXT_FRAME", "BINARY_FRAME"}

(* ------------------------------ state --------------------------------- *)
VARIABLES
    request,    \* request[i]: the Sec-WebSocket-Key header of attempt i's GET, "" before it arrives
    upgrade,    \* upgrade[i]: the arguments of session->upgrade for attempt i, <<>> before the call
    phase,      \* phase[i]: how far attempt i has come
    key,        \* key[i]: socket->get_key( ) of attempt i's WebSocket, NoKey before the upgrade
    isOpen,     \* isOpen[i]: socket->is_open( )
    handlers,   \* handlers[i]: the handlers set on i's socket
    sockets,    \* the registry: key -> session, None where the key has no entry
    sent,       \* sent[i][f]: sends of frame kind f issued on i's socket
    closeCalls, \* closeCalls[i]: calls of socket->close( ) on i's socket
    hist,       \* hist[i]: the teardown events session i has seen
    removals,   \* removals[i]: times i's entry went from present to absent
    visited,    \* visited[i]: times the latest keepalive run visited i's entry
    timer,      \* delay (ms) of the pending keepalive task, 0 when none is pending
    pingRuns,   \* runs of ping_handler so far
    frames,     \* frames dispatched so far
    failedSends,\* failedSends[i]: sends issued on i's socket while it was not open
    failures,   \* failures the handlers have signalled: <<session, error>>
    crashed     \* the process died on an invalid iterator

vars == <<request, upgrade, phase, key, isOpen, handlers, sockets, sent, closeCalls, hist,
          removals, visited, timer, pingRuns, frames, failedSends, failures, crashed>>

\* The join attempts, and the WebSocket keys; std::map keeps the keys in
\* ascending order.
Sess == DOMAIN phase
Keys == DOMAIN sockets

Phases == {"idle", "upgrading", "rejected", "aborted", "welcoming", "welcomed"}
FrameKinds == {"welcome", "ping", "pong", "data"}
NoSends == [f \in FrameKinds |-> 0]

Handlers == {"close", "error", "message"}
\* "close_frame": a Close frame was dispatched; "notified": the transport's
\* close notification; "reaped": a keepalive run found it not open;
\* "closed": close_handler ran; "errored": error_handler ran.
Events == {"close_frame", "notified", "reaped", "closed", "errored"}

\* Session i owns an entry of the registry.
InMap(m, k, i) == k # NoKey /\ m[k] = i
InReg(i) == InMap(sockets, key[i], i)
Registered == {i \in Sess : InReg(i)}

(* ------------------------ std::map operations ------------------------- *)
KeysOf(m) == {k \in Keys : m[k] # None}

Min(S) == CHOOSE x \in S : \A y \in S : x <= y

\* sockets.begin( )
Begin(m) == IF KeysOf(m) = {} THEN End ELSE Min(KeysOf(m))

\* ++it on a valid iterator
Successor(m, k) ==
    LET above == {k2 \in KeysOf(m) : k2 > k}
    IN  IF above = {} THEN End ELSE Min(above)

\* sockets.insert( make_pair( key, socket ) ): keeps an existing entry
MapInsert(m, k, i) == IF m[k] # None THEN m ELSE [m EXCEPT ![k] = i]

\* A variant of MapErase: erase( find( key ) ), which for an absent key takes
\* the first entry instead.
MapEraseFound(m, k) ==
    IF m[k] = None /\ KeysOf(m) # {}
    THEN [m EXCEPT ![Min(KeysOf(m))] = None]
    ELSE [m EXCEPT ![k] = None]

\* sockets.erase( key ): nothing happens when the key is absent
MapErase(m, k) == [m EXCEPT ![k] = None]

(* ------------------------ handshake responder ------------------------- *)
\* request->get_header( name ): the header's value, the empty string when the
\* request has no such header.
get_header(req) == IF req = Absent THEN "" ELSE req

\* SHA1( ) and base64_encode( ) as free constructors: distinct inputs give
\* distinct outputs and nothing else is assumed about them.
SHA1(data) == <<"sha1", data>>
base64_encode(digest) == <<"base64", digest>>

\* A variant of the responder that mixes the number of registered sockets
\* into the hashed key.
build_headers_with_registry(req) ==
    LET k == get_header(req) \o MagicGUID
    IN  { <<"Upgrade", "websocket">>,
          <<"Connection", "Upgrade">>,
          <<"Sec-WebSocket-Accept", base64_encode(SHA1(<<k, Cardinality(KeysOf(sockets))>>))>> }

build_websocket_handshake_response_headers(req) ==
    LET k == get_header(req) \o MagicGUID
    IN  { <<"Upgrade", "websocket">>,
          <<"Connection", "Upgrade">>,
          <<"Sec-WebSocket-Accept", base64_encode(SHA1(k))>> }

(* --------------------- the handlers, on a world ----------------------- *)
\* What the handlers read and write, passed through the calls they make.
World == [sockets |-> sockets, sent |-> sent, closeCalls |-> closeCalls,
          hist |-> hist, isOpen |-> isOpen, handlers |-> handlers,
          failedSends |-> failedSends]

\* socket->send( ... ): one send issued on i's socket.  It returns at once;
\* on a socket that is not open the write fails, which the transport reports
\* later through the error handler.
Send(w, i, f) ==
    [w EXCEPT !.sent[i][f] = @ + 1,
              !.failedSends[i] = IF w.isOpen[i] THEN @ ELSE @ + 1]

\* close_handler( socket ), example.cpp:74-80.
close_handler(w, i) ==
    [w EXCEPT !.sockets = MapErase(@, key[i]),
              !.hist[i] = @ \cup {"closed"}]

\* A variant of error_handler that drops the socket's entry.
error_handler_erasing(w, i) ==
    [w EXCEPT !.sockets = MapErase(@, key[i]),
              !.hist[i] = @ \cup {"errored"}]

\* error_handler( socket, error ), example.cpp:82-86: it only logs.
error_handler(w, i) == [w EXCEPT !.hist[i] = @ \cup {"errored"}]

\* socket->close( ): the transport closes the socket and invokes the close
\* handler attached to it ("source->close( ) which then invokes
\* close_handler", example.cpp:130).
WebSocketClose(w, i) ==
    LET c == [w EXCEPT !.closeCalls[i] = @ + 1, !.isOpen[i] = FALSE]
    IN  IF "close" \in w.handlers[i] THEN close_handler(c, i) ELSE c

\* A variant of RelayVisit without the comparison of keys: the frame is
\* echoed to its sender.
RelayVisitEcho(w, it, src) == Send(w, w.sockets[it], "data")

\* The body of the loop of message_handler's last branch, example.cpp:142-148,
\* for the entry at `it`.
RelayVisit(w, it, src) ==
    LET source_key == key[src]
        destination_key == it
        destination == w.sockets[it]
    IN  IF source_key # destination_key THEN Send(w, destination, "data") ELSE w

\* A variant of RelayLoop that gives up at the first destination that is not
\* open.
RECURSIVE RelayLoopUntilFailure(_, _, _)
RelayLoopUntilFailure(w, it, src) ==
    IF it = End THEN w
    ELSE IF key[src] # it /\ ~w.isOpen[w.sockets[it]]
         THEN RelayVisit(w, it, src)
         ELSE RelayLoopUntilFailure(RelayVisit(w, it, src), Successor(w.sockets, it), src)

\* for ( auto socket : sockets ) { ... }, example.cpp:140-150, from iterator
\* `it` on; no call in its body changes `sockets`.
RECURSIVE RelayLoop(_, _, _)
RelayLoop(w, it, src) ==
    IF it = End THEN w
    ELSE RelayLoop(RelayVisit(w, it, src), Successor(w.sockets, it), src)

\* A variant of message_handler that answers a Ping with a Ping.
message_handler_ping_back(w, src, opcode) ==
    IF opcode = "PING_FRAME" THEN Send(w, src, "ping")
    ELSE IF opcode = "PONG_FRAME" THEN w
    ELSE IF opcode = "CONNECTION_CLOSE_FRAME"
         THEN [close_handler(w, src) EXCEPT !.hist[src] = @ \cup {"close_frame"}]
    ELSE RelayLoop(w, Begin(w.sockets), src)

\* A variant of message_handler that relays only for a registered source.
message_handler_members_only(w, src, opcode) ==
    IF opcode = "PING_FRAME" THEN Send(w, src, "pong")
    ELSE IF opcode = "PONG_FRAME" THEN w
    ELSE IF opcode = "CONNECTION_CLOSE_FRAME"
         THEN [close_handler(w, src) EXCEPT !.hist[src] = @ \cup {"close_frame"}]
    ELSE IF w.sockets[key[src]] = src THEN RelayLoop(w, Begin(w.sockets), src)
    ELSE w

\* message_handler( source, message ), example.cpp:109-160.
message_handler(w, src, opcode) ==
    IF opcode = "PING_FRAME" THEN Send(w, src, "pong")
    ELSE IF opcode = "PONG_FRAME" THEN w
    ELSE IF opcode = "CONNECTION_CLOSE_FRAME"
         THEN [close_handler(w, src) EXCEPT !.hist[src] = @ \cup {"close_frame"}]
    ELSE RelayLoop(w, Begin(w.sockets), src)

\* A variant of upgrade_continuation that registers the socket right away,
\* before the welcome send has completed.
upgrade_continuation_eager(w, i, k, open) ==
    IF open
    THEN Send([w EXCEPT !.handlers[i] = Handlers,
                        !.sockets = MapInsert(@, k, i)], i, "welcome")
    ELSE w

\* A variant of upgrade_continuation without the test of is_open( ).
upgrade_continuation_unchecked(w, i, k, open) ==
    Send([w EXCEPT !.handlers[i] = Handlers], i, "welcome")

\* The continuation handed to session->upgrade, example.cpp:172-192, for
\* socket i with key k.
upgrade_continuation(w, i, k, open) ==
    IF open
    THEN Send([w EXCEPT !.handlers[i] = Handlers], i, "welcome")
    ELSE w

\* The completion of the welcome send, example.cpp:180-186.
welcome_sent(w, i) == [w EXCEPT !.sockets = MapInsert(@, key[i], i)]

(* -------------------------- keepalive run ----------------------------- *)
\* The state of one run of ping_handler's loop: the world, the iterator,
\* the visits made, and whether the process is still alive.
PingStart(w) == [w |-> w, it |-> Begin(w.sockets),
                 visited |-> [i \in Sess |-> 0], crashed |-> FALSE]

\* The body of the loop for an open socket, example.cpp:95-98, followed by ++it.
VisitOpen(st) ==
    LET s == st.w.sockets[st.it]
    IN  [st EXCEPT !.w = Send(@, s, "ping"),
                   !.visited[s] = @ + 1,
                   !.it = Successor(st.w.sockets, st.it)]

\* A variant of VisitNotOpen that drops the entry without closing the socket.
VisitNotOpenNoClose(st) ==
    LET s == st.w.sockets[st.it]
    IN  [st EXCEPT !.w = [@ EXCEPT !.sockets = MapErase(@, st.it),
                                   !.hist[s] = @ \cup {"reaped"}],
                   !.visited[s] = @ + 1]

\* The body of the loop for a socket that is not open, example.cpp:99-103.
\* The iterator is left on the erased node.
VisitNotOpen(st) ==
    LET s == st.w.sockets[st.it]
        k == st.it
        c == WebSocketClose(st.w, s)
    IN  [st EXCEPT !.w = [c EXCEPT !.sockets = MapErase(@, k),
                                   !.hist[s] = @ \cup {"reaped"}],
                   !.visited[s] = @ + 1]

\* ++it on the iterator of an erased node is undefined: the stale node's
\* links lead to some node still in the map or to the end, or the
\* process dies on freed memory.
AfterErase(st) ==
    { [st EXCEPT !.it = n] : n \in KeysOf(st.w.sockets) \cup {End} }
    \cup { [st EXCEPT !.crashed = TRUE] }

\* for ( auto entry : sockets ) { ... }, example.cpp:90-104: every way the
\* loop can end.
RECURSIVE PingLoop(_)
PingLoop(st) ==
    IF st.crashed \/ st.it = End THEN {st}
    ELSE IF st.w.isOpen[st.w.sockets[st.it]]
         THEN PingLoop(VisitOpen(st))
         ELSE UNION { PingLoop(n) : n \in AfterErase(VisitNotOpen(st)) }

(* ----------------------------- actions -------------------------------- *)
\* Entries that went from present to absent between registry m and m2.
Removed(m, m2) ==
    [i \in Sess |-> removals[i] + IF InMap(m, key[i], i) /\ ~InMap(m2, key[i], i) THEN 1 ELSE 0]

\* The handler's effects become the next state.
Commit(w) ==
    /\ sockets' = w.sockets
    /\ sent' = w.sent
    /\ closeCalls' = w.closeCalls
    /\ hist' = w.hist
    /\ isOpen' = w.isOpen
    /\ handlers' = w.handlers
    /\ failedSends' = w.failedSends
    /\ removals' = Removed(sockets, w.sockets)

\* The state main( ) leaves, example.cpp:199-211, with n join attempts to come.
InitOn(n) ==
    /\ request = [i \in 1..n |-> ""]
    /\ upgrade = [i \in 1..n |-> <<>>]
    /\ phase = [i \in 1..n |-> "idle"]
    /\ key = [i \in 1..n |-> NoKey]
    /\ isOpen = [i \in 1..n |-> FALSE]
    /\ handlers = [i \in 1..n |-> {}]
    /\ sockets = [k \in 1..n |-> None]
    /\ sent = [i \in 1..n |-> NoSends]
    /\ closeCalls = [i \in 1..n |-> 0]
    /\ hist = [i \in 1..n |-> {}]
    /\ removals = [i \in 1..n |-> 0]
    /\ visited = [i \in 1..n |-> 0]
    /\ timer = InitialDelayMs
    /\ pingRuns = 0
    /\ frames = 0
    /\ failedSends = [i \in 1..n |-> 0]
    /\ failures = {}
    /\ crashed = FALSE

Init == InitOn(NSess)

\* get_method_handler( session ), example.cpp:162-197, up to the call of
\* session->upgrade: a GET on /socket arrives for attempt i.
GetMethodHandler(i, req) ==
    /\ ~crashed
    /\ phase[i] = "idle"
    /\ i > 1 => phase[i - 1] # "idle"
    /\ request' = [request EXCEPT ![i] = req]
    /\ upgrade' = [upgrade EXCEPT ![i] =
           <<SWITCHING_PROTOCOLS, build_websocket_handshake_response_headers(req)>>]
    /\ phase' = [phase EXCEPT ![i] = "upgrading"]
    /\ UNCHANGED <<key, isOpen, handlers, sockets, sent, closeCalls, hist, removals, visited,
                   timer, pingRuns, frames, failedSends, failures, crashed>>

\* The keys the transport may give a new socket: any key, or with
\* `unique` only a key no other socket has had.
FreshKeys(unique) ==
    IF unique THEN Keys \ {key[j] : j \in Sess} ELSE Keys

\* The continuation handed to session->upgrade, example.cpp:172-192, run by
\* the transport with the new socket (key k, open or not).
UpgradeContinuation(i, k, open, unique) ==
    /\ ~crashed
    /\ phase[i] = "upgrading"
    /\ k \in FreshKeys(unique)
    /\ key' = [key EXCEPT ![i] = k]
    /\ Commit(upgrade_continuation([World EXCEPT !.isOpen[i] = open], i, k, open))
    /\ phase' = [phase EXCEPT ![i] = IF open THEN "welcoming" ELSE "aborted"]
    /\ UNCHANGED <<request, upgrade, visited, timer, pingRuns, frames, failures, crashed>>

\* The welcome send of session i completes and its completion handler runs.
WelcomeSent(i) ==
    /\ ~crashed
    /\ phase[i] = "welcoming"
    /\ isOpen[i]
    /\ Commit(welcome_sent(World, i))
    /\ phase' = [phase EXCEPT ![i] = "welcomed"]
    /\ UNCHANGED <<request, upgrade, key, visited, timer, pingRuns, frames, failures, crashed>>

\* The peer of session i goes away: the socket is no longer open.
Disconnect(i) ==
    /\ ~crashed
    /\ key[i] # NoKey
    /\ isOpen[i]
    /\ isOpen' = [isOpen EXCEPT ![i] = FALSE]
    /\ UNCHANGED <<request, upgrade, phase, key, handlers, sockets, sent, closeCalls, hist,
                   removals, visited, timer, pingRuns, frames, failedSends, failures, crashed>>

\* The transport reports an error on session i's socket.
ErrorNotification(i) ==
    /\ ~crashed
    /\ "error" \in handlers[i]
    /\ Commit(error_handler(World, i))
    /\ UNCHANGED <<request, upgrade, phase, key, visited, timer, pingRuns, frames, failures, crashed>>

\* The transport closes session i's socket and notifies the close handler.
CloseNotification(i) ==
    /\ ~crashed
    /\ "close" \in handlers[i]
    /\ Commit([close_handler(World, i) EXCEPT !.isOpen[i] = FALSE,
                                              !.hist[i] = @ \cup {"notified"}])
    /\ UNCHANGED <<request, upgrade, phase, key, visited, timer, pingRuns, frames, failures, crashed>>

\* The transport hands message_handler a frame received from session i.
MessageHandler(i, opcode) ==
    /\ ~crashed
    /\ "message" \in handlers[i]
    /\ isOpen[i]
    /\ frames < MaxFrames
    /\ frames' = frames + 1
    /\ Commit(message_handler(World, i, opcode))
    /\ UNCHANGED <<request, upgrade, phase, key, visited, timer, pingRuns, failures, crashed>>

\* ping_handler( ), example.cpp:88-107: the pending keepalive task runs.
PingHandler ==
    /\ ~crashed
    /\ timer # 0
    /\ pingRuns < MaxRuns
    /\ pingRuns' = pingRuns + 1
    /\ \E st \in PingLoop(PingStart(World)) :
          /\ Commit(st.w)
          /\ visited' = st.visited
          /\ crashed' = st.crashed
          /\ timer' = IF st.crashed THEN 0 ELSE PingDelayMs
    /\ UNCHANGED <<request, upgrade, phase, key, frames, failures>>

Step(unique) ==
    \/ \E i \in Sess, req \in RequestKeys : GetMethodHandler(i, req)
    \/ \E i \in Sess, k \in Keys, open \in BOOLEAN : UpgradeContinuation(i, k, open, unique)
    \/ \E i \in Sess : WelcomeSent(i)
    \/ \E i \in Sess : Disconnect(i)
    \/ \E i \in Sess : ErrorNotification(i)
    \/ \E i \in Sess : CloseNotification(i)
    \/ \E i \in Sess, opcode \in Opcodes : MessageHandler(i, opcode)
    \/ PingHandler

\* Every socket gets a key of its own.
Next == Step(TRUE)
Spec == Init /\ [][Next]_vars

\* The transport may hand out a key again.
NextDup == Step(FALSE)
SpecDup == Init /\ [][NextDup]_vars

\* More connections, of which only the joins, the disconnects and the data
\* frames are followed.
InitWide == InitOn(NWide)
NextWide ==
    \/ \E i \in Sess : GetMethodHandler(i, SampleKey)
    \/ \E i \in Sess, k \in Keys : UpgradeContinuation(i, k, TRUE, TRUE)
    \/ \E i \in Sess : WelcomeSent(i)
    \/ \E i \in Sess : Disconnect(i)
    \/ \E i \in Sess, opcode \in {"TEXT_FRAME", "BINARY_FRAME"} : MessageHandler(i, opcode)
SpecWide == InitWide /\ [][NextWide]_vars

\* The service runs a scheduled task once its delay has passed.
SpecFair == Spec /\ WF_vars(PingHandler)

(* ============================== claims ================================ *)
\* Session i has been torn down: closed, errored or reaped.
TornDown(i) == hist[i] # {}

\* Session i completed the handshake and its welcome send, and has not been
\* torn down.
Live(i) == phase[i] = "welcomed" /\ ~TornDown(i)

\* C1: in every reachable state a session is in the registry if and only if
\* it completed the handshake, its welcome send completed, and it has not
\* been closed, errored or reaped; so the registry's size is the number of
\* such sessions.
C1_RegistryIffLive ==
    /\ \A i \in Sess : InReg(i) <=> Live(i)
    /\ Cardinality(KeysOf(sockets)) = Cardinality({i \in Sess : Live(i)})

DataFrames == {"TEXT_FRAME", "BINARY_FRAME"}

\* C2: a Text/Binary frame from session a, dispatched while N other sessions
\* are registered, makes exactly N sends of the frame: one to every
\* registered session other than a, none to a, and for N = 0 none at all.
C2_RelayToEveryOther ==
    [][\A a \in Sess, op \in DataFrames :
          MessageHandler(a, op) =>
             /\ \A i \in Sess :
                   sent'[i] = IF i \in Registered \ {a}
                              THEN [sent[i] EXCEPT !.data = @ + 1]
                              ELSE sent[i]
             /\ \A n \in 0..NSess :
                   Cardinality(Registered \ {a}) = n =>
                      Cardinality({i \in Sess : sent'[i] # sent[i]}) = n]_vars

\* Of two registered sessions one has been sent a relayed frame and the
\* other, its sender, none.
C2_Witness ==
    \E a, i \in Sess :
       /\ InReg(a) /\ InReg(i)
       /\ sent[i].data = 1
       /\ sent[a].data = 0

\* C3: a Ping frame from session s makes exactly one send, a Pong to s, and
\* leaves the registry as it was.
C3_PingAnsweredByOnePong ==
    [][\A s \in Sess :
          MessageHandler(s, "PING_FRAME") =>
             /\ sent' = [sent EXCEPT ![s].pong = @ + 1]
             /\ sockets' = sockets]_vars

C3_Witness == \E s \in Sess : InReg(s) /\ sent[s].pong = 1

\* C4: the entry of a session that received a Close frame goes from present
\* to absent at most once, and a removal attempt for a session whose entry
\* is gone (a Close frame, a close notification) leaves the registry as it
\* was.
C4_RemovedAtMostOnce ==
    [][\A i \in Sess :
          /\ "close_frame" \in hist'[i] => removals'[i] <= 1
          /\ ( /\ ~InReg(i)
               /\ CloseNotification(i) \/ MessageHandler(i, "CONNECTION_CLOSE_FRAME") )
             => sockets' = sockets]_vars

\* A session has lost its entry once, has seen both its Close frame and its
\* close notification, and the keepalive task has run beside another
\* registered session.
C4_Witness ==
    \E i \in Sess :
       /\ {"close_frame", "notified"} \subseteq hist[i]
       /\ removals[i] = 1
       /\ pingRuns > 0
       /\ \E j \in Sess : InReg(j)

\* C5: a keepalive run sends exactly one Ping to every session that was
\* registered and open when it began, and leaves that session registered.
C5_EveryOpenPingedOnce ==
    [][PingHandler =>
          \A i \in Sess :
             (InReg(i) /\ isOpen[i]) =>
                /\ sent'[i].ping = sent[i].ping + 1
                /\ InMap(sockets', key[i], i)]_vars

\* C6: a keepalive run closes exactly once every registered session it
\* observes not open, removes it from the registry and sends it no Ping.
C6_NotOpenClosedAndRemoved ==
    [][PingHandler =>
          \A i \in Sess :
             (InReg(i) /\ ~isOpen[i] /\ visited'[i] > 0) =>
                /\ closeCalls'[i] = closeCalls[i] + 1
                /\ ~InMap(sockets', key[i], i)
                /\ sent'[i].ping = sent[i].ping]_vars

C6_Witness ==
    \E i \in Sess :
       /\ "reaped" \in hist[i]
       /\ closeCalls[i] = 1
       /\ visited[i] = 1
       /\ ~InReg(i)

\* C7: when the welcome send of a session completes and the registry already
\* holds an entry for its key, the entry stays as it was and the insertion
\* is rejected with a DuplicateKey failure.
C7_DuplicateKeyRejected ==
    [][\A i \in Sess :
          (WelcomeSent(i) /\ sockets[key[i]] # None) =>
             /\ sockets' = sockets
             /\ <<i, "DuplicateKey">> \in failures']_vars

\* C8: a request without a Sec-WebSocket-Key header is rejected with
\* InvalidHandshake: upgrade is not called for it and its connection never
\* enters the registry.
C8_MissingKeyRejected ==
    \A i \in Sess :
       request[i] = Absent =>
          /\ upgrade[i] = <<>>
          /\ <<i, "InvalidHandshake">> \in failures
          /\ ~InReg(i)

\* C9: a session is in the registry only once its welcome send has
\* completed; a session whose upgrade completed and whose welcome send is
\* still under way is not in the registry.
C9_RegisteredOnlyAfterWelcome ==
    \A i \in Sess :
       /\ InReg(i) => phase[i] = "welcomed" /\ sent[i].welcome = 1
       /\ phase[i] = "welcoming" => ~InReg(i)

\* One session is registered while another still waits for its welcome send.
C9_Witness ==
    \E i, j \in Sess : InReg(i) /\ phase[j] = "welcoming" /\ sent[j].welcome = 1

\* C10: the continuation of an upgrade whose socket is not open attaches no
\* handler, sends nothing and leaves the registry as it was, and that session
\* is never in the registry.
C10_AbortedNeverRegistered ==
    [][\A i \in Sess :
          phase'[i] = "aborted" =>
             /\ handlers'[i] = {}
             /\ sent'[i] = NoSends
             /\ ~InMap(sockets', key'[i], i)
             /\ phase[i] # "aborted" => sockets' = sockets]_vars

\* An upgrade was abandoned next to a registered session, and the keepalive
\* task and the dispatcher have run since.
C10_Witness ==
    \E i, j \in Sess :
       /\ phase[i] = "aborted"
       /\ InReg(j)
       /\ pingRuns > 0
       /\ frames > 0

\* C11: every run of ping_handler ends by scheduling the next run, whatever
\* happened in the run.
C11_EveryRunReschedules ==
    [][PingHandler => timer' = PingDelayMs]_vars

\* C12: the dispatch of a Close frame from session s closes s's transport and
\* leaves s absent from the registry.
C12_CloseFrameClosesTransport ==
    [][\A s \in Sess :
          MessageHandler(s, "CONNECTION_CLOSE_FRAME") =>
             /\ ~isOpen'[s]
             /\ ~InMap(sockets', key[s], s)]_vars

\* C13: a relay in which the send to one recipient fails (its socket is not
\* open) still makes one send to every other registered session and leaves
\* the registry, the failing recipient's entry included, as it was.
C13_FailureDoesNotStopRelay ==
    [][\A a \in Sess, op \in DataFrames :
          ( /\ MessageHandler(a, op)
            /\ \E f \in Registered \ {a} : ~isOpen[f] )
          => /\ \A i \in Registered \ {a} : sent'[i].data = sent[i].data + 1
             /\ sockets' = sockets]_vars

\* A send to a registered socket has failed, and a registered open socket
\* with a greater key has been sent the frame.
C13_Witness ==
    \E f, r \in Sess :
       /\ InReg(f) /\ failedSends[f] = 1
       /\ InReg(r) /\ isOpen[r] /\ sent[r].data = 1
       /\ key[f] < key[r]

C15_RemovalIsTerminal ==
    \A i \in Sess : hist[i] \cap {"closed", "reaped"} # {} => ~InReg(i)

\* C16: error_handler changes neither the registry nor the sends nor any
\* socket, and an entry disappears only in a close notification or Close
\* frame of its session or in a keepalive run that finds it not open.
C16_ErrorOnlyLogs ==
    [][\A s \in Sess :
          /\ ErrorNotification(s) =>
                /\ sockets' = sockets
                /\ sent' = sent
                /\ closeCalls' = closeCalls
                /\ isOpen' = isOpen
          /\ (InReg(s) /\ ~InMap(sockets', key[s], s)) =>
                \/ CloseNotification(s)
                \/ MessageHandler(s, "CONNECTION_CLOSE_FRAME")
                \/ PingHandler /\ ~isOpen[s]]_vars

\* A session is still registered after an error on its socket, and a
\* keepalive run has passed.
C16_Witness ==
    \E s \in Sess : "errored" \in hist[s] /\ InReg(s) /\ pingRuns > 0

\* C17: the pending keepalive task always has the delay of 5000 ms, at startup
\* as after each run.
C17_OneInterval == timer # 0 => timer = PingDelayMs

\* C18: a registered session whose socket is no longer open is eventually
\* removed by the keepalive task (as long as the model lets the task run).
C18_NotOpenEventuallyRemoved ==
    \A i \in 1..NSess :
       (InReg(i) /\ ~isOpen[i]) ~> (~InReg(i) \/ pingRuns = MaxRuns)

\* C19: a session that has been sent a relayed frame has had its welcome
\* send complete.
C19_WelcomeBeforeRelay ==
    \A i \in Sess : sent[i].data > 0 => phase[i] = "welcomed" /\ sent[i].welcome = 1

\* A frame has been relayed to one session while the other still waits for
\* its welcome send and has been sent nothing else.
C19_Witness ==
    \E i, j \in Sess :
       /\ sent[i].data = 2
       /\ phase[j] = "welcoming"
       /\ sent[j] = [NoSends EXCEPT !.welcome = 1]

\* C20: a Text/Binary frame from a session that is not in the registry is
\* sent once to every registered session, and the registry stays as it was.
C20_RelayFromUnregistered ==
    [][\A a \in Sess, op \in DataFrames :
          (MessageHandler(a, op) /\ ~InReg(a)) =>
             /\ \A i \in Sess :
                   sent'[i].data = sent[i].data + IF InReg(i) THEN 1 ELSE 0
             /\ sockets' = sockets]_vars

\* Of the only two sessions there are, the registered one has been sent a
\* frame: by the other, whose welcome send has not completed.
C20_Witness ==
    \E a, i \in Sess :
       /\ phase[a] = "welcoming" /\ isOpen[a]
       /\ InReg(i) /\ sent[i].data = 1
       /\ \A j \in Sess \ {a, i} : phase[j] = "idle"

====
